---- MODULE Spec2Model ----
(***************************************************************************)
(* LocalTable (src/src/table.js): a table of rows kept in a Storage-like   *)
(* key-value store, with an in-memory cache of the row ids.                *)
(*                                                                         *)
(* A JavaScript value is a record [type, num, str]; an object is a         *)
(* function from its own property names to values; a stored text is the    *)
(* JSON document it holds ([isNull, isArray, arr, obj]).                   *)
(***************************************************************************)
EXTENDS Integers, Sequences, FiniteSets, TLC

\* Bound of the model: the longest index an insert or update may produce.
MaxRows == 2

(***************************************************************************)
(* JavaScript values                                                       *)
(***************************************************************************)
Undefined == [type |-> "undefined", num |-> 0, str |-> ""]
JsNull == [type |-> "null", num |-> 0, str |-> ""]
Num(n) == [type |-> "number", num |-> n, str |-> ""]
\* n + 0.5, a number that is not integral
Half(n) == [type |-> "number", num |-> n, str |-> ".5"]
NaN == [type |-> "number", num |-> 0, str |-> "NaN"]
Infinity == [type |-> "number", num |-> 0, str |-> "Infinity"]
Str(s) == [type |-> "string", num |-> 0, str |-> s]
Bool(b) == [type |-> "boolean", num |-> IF b THEN 1 ELSE 0, str |-> ""]
\* {} as the value of a property
ObjectValue == [type |-> "object", num |-> 0, str |-> ""]

\* typeof value
typeof(value) == IF value.type = "null" THEN "object" ELSE value.type

\* a === b (NaN equals nothing, itself included)
StrictEquals(a, b) == a = b /\ a # NaN

\* The decimal strings the model's strings can spell, with their numbers.
NumericStrings == {"0", "1", "2", "3", "4", "5"}
StringToNumber(s) ==
    IF s \in NumericStrings
    THEN Num(CHOOSE n \in 0..5 : ToString(n) = s)
    ELSE IF s = "" THEN Num(0) ELSE NaN

\* ToNumber(value), as Math.round and the relational operators apply it
ToNumber(value) ==
    CASE value.type = "number" -> value
      [] value.type = "string" -> StringToNumber(value.str)
      [] value.type = "boolean" -> Num(value.num)
      [] value.type = "null" -> Num(0)
      [] OTHER -> NaN

\* Math.round(value): halves round up
MathRound(value) ==
    LET n == ToNumber(value)
    IN IF n = NaN THEN NaN
       ELSE IF n.str = ".5" THEN Num(n.num + 1) ELSE n

\* `${value}`: the string a template literal makes of a number or a string
TemplateString(value) ==
    CASE value.type = "string" -> value.str
      [] value.type = "number" ->
            IF value \in {NaN, Infinity} THEN value.str
            ELSE ToString(value.num) \o value.str
      [] value.type = "boolean" -> IF value.num = 1 THEN "true" ELSE "false"
      [] value.type = "object" -> "[object Object]"
      [] OTHER -> value.type

\* {}
EmptyObject == [k \in {} |-> Undefined]

\* obj with obj[key] = value
SetProperty(obj, key, value) ==
    [k \in DOMAIN obj \cup {key} |-> IF k = key THEN value ELSE obj[k]]

(***************************************************************************)
(* src/src/validation.js                                                   *)
(***************************************************************************)
isString(value) == typeof(value) = "string"

\* isInteger with the rounded value compared to the value as a number.
isInteger_Coerced(value) == StrictEquals(MathRound(value), ToNumber(value))

\* `! typeof value === "number"` compares a boolean with a string and is
\* never true; the rounding test alone decides.
isInteger(value) ==
    IF StrictEquals(Bool(~(typeof(value) # "")), Str("number"))
    THEN FALSE
    ELSE IF ~StrictEquals(MathRound(value), value) THEN FALSE ELSE TRUE

isFloat(value) == typeof(value) = "number"

isBool(value) == typeof(value) = "boolean"

(***************************************************************************)
(* JSON texts and the Storage                                              *)
(***************************************************************************)
\* What getItem answers for a key the Storage does not hold.
NullItem == [isNull |-> TRUE, isArray |-> FALSE, arr |-> <<>>, obj |-> EmptyObject]

\* JSON.stringify of one value inside a document: a number that is not
\* finite becomes null.
JSONvalue(value) == IF value \in {NaN, Infinity} THEN JsNull ELSE value

\* JSON.stringify(array of ids)
JSONstringifyArray(ids) ==
    [isNull |-> FALSE, isArray |-> TRUE,
     arr |-> [i \in 1..Len(ids) |-> JSONvalue(ids[i])], obj |-> EmptyObject]

\* JSON.stringify(object): a property whose value is undefined is left out.
JSONstringifyObject(obj) ==
    [isNull |-> FALSE, isArray |-> FALSE, arr |-> <<>>,
     obj |-> [k \in {f \in DOMAIN obj : obj[f].type # "undefined"} |->
                 JSONvalue(obj[k])]]

\* Storage.getItem / setItem / removeItem. removeItem follows the Store
\* contract (the key is removed); the test double's removeItem deletes the
\* property named "key" and so removes nothing.
getItem(storage, key) ==
    IF key \in DOMAIN storage THEN storage[key] ELSE NullItem

setItem(storage, key, value) ==
    [k \in DOMAIN storage \cup {key} |-> IF k = key THEN value ELSE storage[k]]

removeItem(storage, key) ==
    [k \in DOMAIN storage \ {key} |-> storage[k]]

\* `! item` is false for every text the table writes ("[]", "{}", ...).
Truthy(item) == ~item.isNull

(***************************************************************************)
(* LocalTable: fields of the object                                        *)
(***************************************************************************)
tableName == "records"

idField == "id"

lookupTypes == {"=", ">", ">=", "<", "<=", "!="}

\* options["fields"] of the table under check
_fields ==
    << [name |-> "message", type |-> "str"],
       [name |-> "loginCount", type |-> "int", default |-> Num(0)] >>

\* fieldTypes: the recognized type names; "obj" has no validator (null)
fieldTypeNames == {"str", "int", "float", "timestamp", "bool", "obj"}

fieldTypes(fieldType, value) ==
    CASE fieldType = "str" -> isString(value)
      [] fieldType = "int" -> isInteger(value)
      [] fieldType = "float" -> isFloat(value)
      [] fieldType = "timestamp" -> isInteger(value)
      [] fieldType = "bool" -> isBool(value)
      [] OTHER -> TRUE

\* this._cache_ids: null, or an array of ids
NullCache == [isNull |-> TRUE, ids |-> <<>>]
ArrayCache(ids) == [isNull |-> FALSE, ids |-> ids]

\* A table object over its storage: self = [storage, _cache_ids], with
\* the writes its calls have made to the storage, in order.
Table(storage, cache) ==
    [storage |-> storage, _cache_ids |-> cache, writes |-> <<>>]

\* this.storage.setItem(key, value)
StorageSet(self, key, value) ==
    [self EXCEPT !.storage = setItem(@, key, value),
                 !.writes = Append(@, [op |-> "setItem", key |-> key,
                                       value |-> value])]

\* this.storage.removeItem(key)
StorageRemove(self, key) ==
    [self EXCEPT !.storage = removeItem(@, key),
                 !.writes = Append(@, [op |-> "removeItem", key |-> key,
                                       value |-> NullItem])]

\* What a method returns: nothing, a number, a boolean, a row or rows.
RetNone == [kind |-> "undefined", num |-> 0, bool |-> FALSE,
            obj |-> EmptyObject, rows |-> <<>>]
RetNum(n) == [RetNone EXCEPT !.kind = "number", !.num = n]
RetBool(b) == [RetNone EXCEPT !.kind = "boolean", !.bool = b]
RetObj(o) == [RetNone EXCEPT !.kind = "object", !.obj = o]
RetRows(rs) == [RetNone EXCEPT !.kind = "array", !.rows = rs]

\* What a call leaves: the object afterwards, the error thrown ("none" when
\* it returns), the value returned, the data object the caller passed as
\* the call leaves it, and the errors a thrown validation error lists.
Outcome(self, err, ret) ==
    [self |-> self, err |-> err, ret |-> ret, data |-> EmptyObject,
     errors |-> <<>>]

(***************************************************************************)
(* LocalTable: key names and the id cache                                  *)
(***************************************************************************)
\* The two key names of a table of the given name.
TableListNameOf(name) == name \o "_list"

DetailNameOf(name, id) == name \o "_detail_" \o TemplateString(id)

_tableListName == TableListNameOf(tableName)

_detailName(id) == DetailNameOf(tableName, id)

_setIds(self) ==
    LET cache == IF self._cache_ids.isNull THEN ArrayCache(<<>>)
                 ELSE self._cache_ids
    IN StorageSet([self EXCEPT !._cache_ids = cache], _tableListName,
                  JSONstringifyArray(cache.ids))

\* create() with the test of the index key inverted.
create_Inverted(self) ==
    IF Truthy(getItem(self.storage, _tableListName))
    THEN _setIds(self)
    ELSE self

create(self) ==
    IF ~Truthy(getItem(self.storage, _tableListName))
    THEN _setIds(self)
    ELSE self

\* _getIds() that starts an unloaded cache empty and saves it, whatever
\* the storage holds.
_getIds_Resets(self) ==
    IF self._cache_ids.isNull THEN _setIds(self) ELSE self

\* The object after _getIds(); the ids it returns are its _cache_ids.ids.
_getIds(self) ==
    IF self._cache_ids.isNull
    THEN LET listData == getItem(self.storage, _tableListName)
         IN IF ~Truthy(listData)
            THEN create(self)
            ELSE [self EXCEPT !._cache_ids = ArrayCache(listData.arr)]
    ELSE self

\* _pushNewId(id) without the call of _setIds().
_pushNewId_Unsaved(self, id) ==
    LET cache == IF self._cache_ids.isNull THEN ArrayCache(<<>>)
                 ELSE self._cache_ids
    IN [self EXCEPT !._cache_ids = ArrayCache(Append(cache.ids, id))]

_pushNewId(self, id) ==
    LET cache == IF self._cache_ids.isNull THEN ArrayCache(<<>>)
                 ELSE self._cache_ids
    IN _setIds([self EXCEPT !._cache_ids = ArrayCache(Append(cache.ids, id))])

(***************************************************************************)
(* LocalTable: rows                                                        *)
(***************************************************************************)
\* _serializeData(data) without the skip of the id field.
_serializeData_KeepsId(data) == JSONstringifyObject(data)

_serializeData(data) ==
    JSONstringifyObject([k \in DOMAIN data \ {idField} |-> data[k]])

\* JSON.parse(data), then the id set on it.
_deserializeData(id, data) == SetProperty(data.obj, idField, id)

\* get(id) that looks the id up in the index instead of the detail text.
get_ByIndex(self, id) ==
    LET detailData == getItem(self.storage, _detailName(id))
        listData == getItem(self.storage, _tableListName)
    IN IF ~\E n \in 1..Len(listData.arr) : listData.arr[n] = id
       THEN Outcome(self, "NotFound", RetNone)
       ELSE Outcome(self, "none", RetObj(_deserializeData(id, detailData)))

\* get(id): err "NotFound" when the storage holds no detail text.
get(self, id) ==
    LET detailData == getItem(self.storage, _detailName(id))
    IN IF ~Truthy(detailData)
       THEN Outcome(self, "NotFound", RetNone)
       ELSE Outcome(self, "none", RetObj(_deserializeData(id, detailData)))

exists(self, id) == get(self, id).err = "none"

\* One turn of a _validate that gives up after its first error.
ValidateField_StopsAtFirst(fieldAttrs, acc) ==
    LET fieldName == fieldAttrs.name
        data == acc.data
        fieldType == IF "type" \in DOMAIN fieldAttrs THEN fieldAttrs.type
                     ELSE "str"
    IN IF Len(acc.errors) > 0 THEN acc
       ELSE IF fieldName \notin DOMAIN data
       THEN IF "default" \in DOMAIN fieldAttrs
            THEN [acc EXCEPT !.data =
                     SetProperty(data, fieldName, fieldAttrs.default)]
            ELSE IF "required" \in DOMAIN fieldAttrs
                    /\ fieldAttrs.required = FALSE
                 THEN acc
                 ELSE [acc EXCEPT !.errors =
                          Append(@, [kind |-> "Missing", field |-> fieldName])]
       ELSE IF fieldType \notin fieldTypeNames
            THEN [acc EXCEPT !.errors =
                     Append(@, [kind |-> "InvalidFieldType",
                                field |-> fieldName])]
            ELSE IF fieldType # "obj"
                    /\ ~fieldTypes(fieldType, data[fieldName])
                 THEN [acc EXCEPT !.errors =
                          Append(@, [kind |-> "InvalidDataType",
                                     field |-> fieldName])]
                 ELSE acc

\* One turn of _validate's loop over a field: the data (a default may be
\* set on it) and the errors so far.
ValidateField(fieldAttrs, acc) ==
    LET fieldName == fieldAttrs.name
        data == acc.data
        fieldType == IF "type" \in DOMAIN fieldAttrs THEN fieldAttrs.type
                     ELSE "str"
    IN IF fieldName \notin DOMAIN data
       THEN IF "default" \in DOMAIN fieldAttrs
            THEN [acc EXCEPT !.data =
                     SetProperty(data, fieldName, fieldAttrs.default)]
            ELSE IF "required" \in DOMAIN fieldAttrs
                    /\ fieldAttrs.required = FALSE
                 THEN acc
                 ELSE [acc EXCEPT !.errors =
                          Append(@, [kind |-> "Missing", field |-> fieldName])]
       ELSE IF fieldType \notin fieldTypeNames
            THEN [acc EXCEPT !.errors =
                     Append(@, [kind |-> "InvalidFieldType",
                                field |-> fieldName])]
            ELSE IF fieldType # "obj"
                    /\ ~fieldTypes(fieldType, data[fieldName])
                 THEN [acc EXCEPT !.errors =
                          Append(@, [kind |-> "InvalidDataType",
                                     field |-> fieldName])]
                 ELSE acc

RECURSIVE ValidateFrom(_, _, _)
ValidateFrom(fields, i, acc) ==
    IF i > Len(fields) THEN acc
    ELSE ValidateFrom(fields, i + 1, ValidateField(fields[i], acc))

\* _validate(data): the errors, and data as the loop leaves it.
_validate(data) ==
    ValidateFrom(_fields, 1, [data |-> data, errors |-> <<>>])

\* insert(id, data) without the check that the id exists.
insert_Unchecked(self, id, data) ==
    LET v == _validate(data)
    IN IF Len(v.errors) > 0
       THEN [Outcome(self, "ValidationError", RetNone)
                EXCEPT !.data = v.data, !.errors = v.errors]
       ELSE LET stored == StorageSet(self, _detailName(id),
                                     _serializeData(v.data))
            IN [Outcome(_pushNewId(stored, id), "none", RetNone)
                   EXCEPT !.data = v.data]

\* insert(id, data): _validate works on the caller's object itself.
insert(self, id, data) ==
    IF exists(self, id)
    THEN [Outcome(self, "AlreadyExists", RetNone) EXCEPT !.data = data]
    ELSE LET v == _validate(data)
         IN IF Len(v.errors) > 0
            THEN [Outcome(self, "ValidationError", RetNone)
                     EXCEPT !.data = v.data, !.errors = v.errors]
            ELSE LET stored == StorageSet(self, _detailName(id),
                                          _serializeData(v.data))
                 IN [Outcome(_pushNewId(stored, id), "none", RetNone)
                        EXCEPT !.data = v.data]

\* The start of update(id, newData): the current row, or an empty one when
\* get throws, with the properties of newData copied over it.
MergedData(self, id, newData) ==
    LET got == get(self, id)
        currentData == IF got.err = "none" THEN got.ret.obj ELSE EmptyObject
    IN [k \in DOMAIN currentData \cup DOMAIN newData |->
           IF k \in DOMAIN newData THEN newData[k] ELSE currentData[k]]

\* update(id, newData) that stores the merged row before it validates it.
update_StoresFirst(self, id, newData) ==
    LET found == get(self, id).err = "none"
        merged == MergedData(self, id, newData)
        v == _validate(merged)
        after == StorageSet(self, _detailName(id), _serializeData(merged))
    IN IF Len(v.errors) > 0
       THEN [Outcome(after, "ValidationError", RetNone)
                EXCEPT !.data = newData, !.errors = v.errors]
       ELSE [Outcome(IF ~found THEN _pushNewId(after, id) ELSE after,
                     "none", RetNone) EXCEPT !.data = newData]

\* update(id, newData): newData is only read.
update(self, id, newData) ==
    LET found == get(self, id).err = "none"
        v == _validate(MergedData(self, id, newData))
    IN IF Len(v.errors) > 0
       THEN [Outcome(self, "ValidationError", RetNone)
                EXCEPT !.data = newData, !.errors = v.errors]
       ELSE LET after == StorageSet(self, _detailName(id),
                                    _serializeData(v.data))
            IN [Outcome(IF ~found THEN _pushNewId(after, id) ELSE after,
                        "none", RetNone) EXCEPT !.data = newData]

\* delete(id): the detail text is removed first; filtering a null cache
\* then throws a TypeError.
delete(self, id) ==
    LET removed == StorageRemove(self, _detailName(id))
    IN IF self._cache_ids.isNull
       THEN Outcome(removed, "TypeError", RetNone)
       ELSE Outcome(
              _setIds([removed EXCEPT !._cache_ids = ArrayCache(
                  SelectSeq(self._cache_ids.ids,
                            LAMBDA currentId : ~StrictEquals(currentId, id)))]),
              "none", RetNone)

RECURSIVE RemoveDetails(_, _, _)
RemoveDetails(self, allIds, i) ==
    IF i > Len(allIds) THEN self
    ELSE RemoveDetails(StorageRemove(self, _detailName(allIds[i])),
                       allIds, i + 1)

\* drop() that empties the whole storage.
drop_ClearsStorage(self) ==
    [_getIds(self) EXCEPT !.storage = EmptyObject, !._cache_ids = NullCache]

drop(self) ==
    LET loaded == _getIds(self)
        allIds == loaded._cache_ids.ids
    IN [StorageRemove(RemoveDetails(loaded, allIds, 1), _tableListName)
           EXCEPT !._cache_ids = NullCache]

count(self) ==
    LET loaded == _getIds(self)
    IN Outcome(loaded, "none", RetNum(Len(loaded._cache_ids.ids)))

(***************************************************************************)
(* LocalTable: filtering                                                   *)
(***************************************************************************)
\* The strings of the model in the order of JavaScript's string comparison.
StringOrder == <<"", "1", "2", "5", "Bye", "Hello">>
StringRank(s) == CHOOSE i \in 1..Len(StringOrder) : StringOrder[i] = s

\* Twice a finite number's value, so that halves compare as integers.
Twice(n) == 2 * n.num + (IF n.str = ".5" THEN 1 ELSE 0)

\* a < b: two strings compare as strings, anything else as numbers, and a
\* NaN on either side makes the comparison false.
LessThan(a, b) ==
    IF a.type = "string" /\ b.type = "string"
    THEN StringRank(a.str) < StringRank(b.str)
    ELSE LET x == ToNumber(a)
             y == ToNumber(b)
         IN /\ x # NaN /\ y # NaN /\ x # Infinity
            /\ (y = Infinity \/ Twice(x) < Twice(y))

\* a <= b is its own comparison in JavaScript, not ~(b < a)
LessOrEqual(a, b) ==
    IF a.type = "string" /\ b.type = "string"
    THEN StringRank(a.str) <= StringRank(b.str)
    ELSE LET x == ToNumber(a)
             y == ToNumber(b)
         IN /\ x # NaN /\ y # NaN
            /\ (y = Infinity \/ (x # Infinity /\ Twice(x) <= Twice(y)))

\* One case of the switch over the comparison.
Compare(comparison, currentValue, desiredValue) ==
    CASE comparison = "=" -> StrictEquals(currentValue, desiredValue)
      [] comparison = ">" -> LessThan(desiredValue, currentValue)
      [] comparison = ">=" -> LessOrEqual(desiredValue, currentValue)
      [] comparison = "<" -> LessThan(currentValue, desiredValue)
      [] comparison = "<=" -> LessOrEqual(currentValue, desiredValue)
      [] OTHER -> ~StrictEquals(currentValue, desiredValue)

\* _defaultFiltering(filterBy, detailData) where a field the row lacks
\* makes the row fail to match.
_defaultFiltering_AbsentFails(filterBy, detailData) ==
    LET checked == DOMAIN filterBy \cap DOMAIN detailData
    IN IF \E fieldName \in checked :
             \E comparison \in DOMAIN filterBy[fieldName] :
                 comparison \notin lookupTypes
       THEN [err |-> "InvalidLookup", matched |-> FALSE]
       ELSE [err |-> "none",
             matched |->
                 /\ DOMAIN filterBy \subseteq DOMAIN detailData
                 /\ \A fieldName \in checked :
                       \A comparison \in DOMAIN filterBy[fieldName] :
                           Compare(comparison, detailData[fieldName],
                                   filterBy[fieldName][comparison])]

\* _defaultFiltering(filterBy, detailData): a field the row lacks is
\* skipped with its comparisons, the unknown ones included.
_defaultFiltering(filterBy, detailData) ==
    LET checked == DOMAIN filterBy \cap DOMAIN detailData
    IN IF \E fieldName \in checked :
             \E comparison \in DOMAIN filterBy[fieldName] :
                 comparison \notin lookupTypes
       THEN [err |-> "InvalidLookup", matched |-> FALSE]
       ELSE [err |-> "none",
             matched |-> \A fieldName \in checked :
                 \A comparison \in DOMAIN filterBy[fieldName] :
                     Compare(comparison, detailData[fieldName],
                             filterBy[fieldName][comparison])]

\* The callables a caller passes to filter, by name.
CallFilterBy(fn, detailData) ==
    CASE fn = "messageIsHello" ->
            "message" \in DOMAIN detailData
            /\ StrictEquals(detailData["message"], Str("Hello"))
      [] fn = "idIsOne" -> StrictEquals(detailData[idField], Num(1))
      [] OTHER -> FALSE

\* filterBy as the caller passes it: undefined, a plain object or a function
NoFilter == [kind |-> "undefined", map |-> EmptyObject, fn |-> ""]
FilterMap(map) == [kind |-> "object", map |-> map, fn |-> ""]
FilterFunction(fn) == [kind |-> "function", map |-> EmptyObject, fn |-> fn]

\* The loop of _filter from the i-th id on: a detail text that is missing
\* is logged, and setting the id on the parsed null then throws.
RECURSIVE FilterFrom(_, _, _, _, _)
FilterFrom(storage, allIds, i, filterBy, allData) ==
    IF i > Len(allIds) THEN [err |-> "none", rows |-> allData]
    ELSE LET id == allIds[i]
             rawData == getItem(storage, _detailName(id))
         IN IF ~Truthy(rawData)
            THEN [err |-> "TypeError", rows |-> <<>>]
            ELSE LET detailData == _deserializeData(id, rawData)
                     verdict ==
                        CASE filterBy.kind = "undefined" ->
                                [err |-> "none", matched |-> TRUE]
                          [] filterBy.kind = "function" ->
                                [err |-> "none",
                                 matched |-> CallFilterBy(filterBy.fn,
                                                          detailData)]
                          [] OTHER ->
                                _defaultFiltering(filterBy.map, detailData)
                 IN IF verdict.err # "none"
                    THEN [err |-> verdict.err, rows |-> <<>>]
                    ELSE FilterFrom(storage, allIds, i + 1, filterBy,
                                    IF verdict.matched
                                    THEN Append(allData, detailData)
                                    ELSE allData)

_filter(self, filterBy) ==
    LET loaded == _getIds(self)
        found == FilterFrom(loaded.storage, loaded._cache_ids.ids, 1,
                            filterBy, <<>>)
    IN Outcome(loaded, found.err,
               IF found.err = "none" THEN RetRows(found.rows) ELSE RetNone)

all(self) == _filter(self, NoFilter)

filter(self, filterBy) == _filter(self, filterBy)

(***************************************************************************)
(* The state machine: one owner calling the public operations of a table   *)
(* object, and constructing a new object over the same storage.            *)
(***************************************************************************)
VARIABLES
    storage,     \* the Storage: key -> text
    _cache_ids,  \* the table object's cache of ids
    call,        \* the last call: [op, id, data, filterBy]
    err,         \* what it threw, "none" if it returned
    ret,         \* what it returned
    callerData,  \* the data object of the call as the call left it
    errors,      \* the errors its validation error listed
    writes,      \* the writes it made to the Storage, in order
    fields,      \* the field list the call validated against
    otherCacheIds \* the _cache_ids of a second table object on the table

vars == <<storage, _cache_ids, call, err, ret, callerData, errors, writes,
          fields, otherCacheIds>>

\* The table object as the state holds it.
Self == Table(storage, _cache_ids)

\* The ids callers use: two numbers, and the string that spells the first.
Ids == {Num(1), Num(2), Str("1")}

\* The data objects callers pass to insert and update.
DataInputs ==
    { EmptyObject,
      [message |-> Str("Hello")],
      [message |-> Str("Bye"), loginCount |-> Num(5)],
      [message |-> Num(5)],
      [loginCount |-> Num(5)],
      [message |-> Str("Hello"), id |-> Num(2)],
      [message |-> Str("Hello"), loginCount |-> Infinity] }

\* The criteria callers pass to filter.
FilterInputs ==
    { FilterMap([loginCount |-> [x \in {">="} |-> Num(5)]]),
      FilterMap([message |-> [x \in {"="} |-> Str("Hello")],
                 loginCount |-> (">=" :> Num(0)) @@ ("<" :> Num(5))]),
      FilterMap([nickname |-> [x \in {"="} |-> Str("Hello")]]),
      FilterMap([message |-> [x \in {"~="} |-> Str("Hello")]]),
      FilterMap([nickname |-> [x \in {"~="} |-> Str("Hello")]]),
      FilterFunction("messageIsHello") }

Call(op, id, data, filterBy) ==
    [op |-> op, id |-> id, data |-> data, filterBy |-> filterBy]

\* The step of a call whose outcome is out.
Returns(c, out) ==
    /\ call' = c
    /\ storage' = out.self.storage
    /\ _cache_ids' = out.self._cache_ids
    /\ err' = out.err
    /\ ret' = out.ret
    /\ callerData' = out.data
    /\ errors' = out.errors
    /\ writes' = out.self.writes
    /\ fields' = _fields
    /\ otherCacheIds' = otherCacheIds

\* An empty Storage, and the first table object constructed over it.
Init ==
    /\ storage = create(Table(EmptyObject, NullCache)).storage
    /\ _cache_ids = create(Table(EmptyObject, NullCache))._cache_ids
    /\ call = Call("construct", Undefined, EmptyObject, NoFilter)
    /\ err = "none"
    /\ ret = RetNone
    /\ callerData = EmptyObject
    /\ errors = <<>>
    /\ writes = create(Table(EmptyObject, NullCache)).writes
    /\ fields = _fields
    /\ otherCacheIds = NullCache

\* new LocalTable(storage, tableName, options) over the storage as it is
Construct ==
    Returns(Call("construct", Undefined, EmptyObject, NoFilter),
            Outcome(create(Table(storage, NullCache)), "none", RetNone))

Create ==
    Returns(Call("create", Undefined, EmptyObject, NoFilter),
            Outcome(create(Self), "none", RetNone))

Drop ==
    Returns(Call("drop", Undefined, EmptyObject, NoFilter),
            Outcome(drop(Self), "none", RetNone))

Count ==
    Returns(Call("count", Undefined, EmptyObject, NoFilter), count(Self))

All ==
    Returns(Call("all", Undefined, EmptyObject, NoFilter), all(Self))

Filter ==
    \E filterBy \in FilterInputs :
        Returns(Call("filter", Undefined, EmptyObject, filterBy),
                filter(Self, filterBy))

Get ==
    \E id \in Ids :
        Returns(Call("get", id, EmptyObject, NoFilter), get(Self, id))

Exists ==
    \E id \in Ids :
        Returns(Call("exists", id, EmptyObject, NoFilter),
                Outcome(Self, "none", RetBool(exists(Self, id))))

Insert ==
    \E id \in Ids, data \in DataInputs :
        LET out == insert(Self, id, data)
        IN /\ Len(out.self._cache_ids.ids) <= MaxRows
           /\ Returns(Call("insert", id, data, NoFilter), out)

Update ==
    \E id \in Ids, data \in DataInputs :
        LET out == update(Self, id, data)
        IN /\ Len(out.self._cache_ids.ids) <= MaxRows
           /\ Returns(Call("update", id, data, NoFilter), out)

Delete ==
    \E id \in Ids :
        Returns(Call("delete", id, EmptyObject, NoFilter), delete(Self, id))

Next ==
    \/ Construct
    \/ Create
    \/ Drop
    \/ Count
    \/ All
    \/ Filter
    \/ Get
    \/ Exists
    \/ Insert
    \/ Update
    \/ Delete

Spec == Init /\ [][Next]_vars

(***************************************************************************)
(* A second state machine: a caller's data object validated against a      *)
(* field list, and inserted into a new table                               *)
(***************************************************************************)
\* The values a caller puts in a field.
FieldValues ==
    { Str("Hello"), Str("5"), Num(5), Half(2), NaN, Infinity, Bool(TRUE),
      JsNull, Undefined, ObjectValue }

\* options["fields"]: one field of each type name, of a name that is not a
\* type, without a type, with a default, with required; and longer lists.
FieldLists ==
    { <<[name |-> "value", type |-> t]>> : t \in fieldTypeNames \cup {"uuid"} }
    \cup
    { <<[name |-> "value"]>>,
      <<[name |-> "value", type |-> "int", default |-> Num(0)]>>,
      <<[name |-> "value", type |-> "uuid", default |-> Num(0)]>>,
      <<[name |-> "value", type |-> "int", required |-> FALSE]>>,
      <<[name |-> "value", type |-> "int", required |-> TRUE]>>,
      _fields,
      <<[name |-> "a", type |-> "uuid"],
        [name |-> "b", type |-> "bool"],
        [name |-> "c", type |-> "float", default |-> Half(2)],
        [name |-> "d", type |-> "timestamp"]>> }

\* The data objects a caller passes for a field list.
DataFor(fieldList) ==
    IF fieldList = _fields
    THEN DataInputs \cup { [message |-> Str("Hello"), loginCount |-> v] :
                              v \in {Str("5"), Half(2), Num(5)} }
    ELSE IF Len(fieldList) = 1
    THEN {EmptyObject} \cup {[value |-> v] : v \in FieldValues}
    ELSE UNION { [names -> {Num(5), Bool(TRUE), Str("5")}] :
                    names \in SUBSET {"a", "b", "c", "d"} }

InitValidate ==
    /\ storage = create(Table(EmptyObject, NullCache)).storage
    /\ _cache_ids = create(Table(EmptyObject, NullCache))._cache_ids
    /\ call = Call("construct", Undefined, EmptyObject, NoFilter)
    /\ err = "none"
    /\ ret = RetNone
    /\ errors = <<>>
    /\ writes = create(Table(EmptyObject, NullCache)).writes
    /\ fields \in FieldLists
    /\ otherCacheIds = NullCache
    /\ callerData \in DataFor(fields)

\* _validate(data) on a table whose options["fields"] is the field list
Validate ==
    LET v == ValidateFrom(fields, 1, [data |-> callerData, errors |-> <<>>])
    IN /\ call' = Call("validate", Undefined, callerData, NoFilter)
       /\ callerData' = v.data
       /\ errors' = v.errors
       /\ err' = "none"
       /\ ret' = RetNone
       /\ writes' = <<>>
       /\ UNCHANGED <<storage, _cache_ids, fields, otherCacheIds>>

\* insert(id, data) on the table whose field list is _fields
InsertData ==
    /\ fields = _fields
    /\ \E id \in Ids :
          LET out == insert(Self, id, callerData)
          IN /\ Len(out.self._cache_ids.ids) <= MaxRows
             /\ Returns(Call("insert", id, callerData, NoFilter), out)

NextValidate ==
    \/ Validate
    \/ InsertData

SpecValidate == InitValidate /\ [][NextValidate]_vars

(***************************************************************************)
(* A third state machine: two table objects on the same table and Storage, *)
(* their calls serialized, each call preceded by create() on the object    *)
(* that makes it                                                           *)
(***************************************************************************)
\* The second object is constructed over the Storage the first one made:
\* its create() finds the list and its cache stays null.
InitHandles == Init

\* The other object acts next.
SwitchHandle ==
    /\ call' = Call("switch", Undefined, EmptyObject, NoFilter)
    /\ _cache_ids' = otherCacheIds
    /\ otherCacheIds' = _cache_ids
    /\ err' = "none"
    /\ ret' = RetNone
    /\ callerData' = EmptyObject
    /\ errors' = <<>>
    /\ writes' = <<>>
    /\ UNCHANGED <<storage, fields>>

\* The data the two objects insert and update with.
HandleData == {[message |-> Str("Hello")], [message |-> Str("Bye")]}

\* The ids they use.
HandleIds == {Num(1), Num(2)}

HandleCount ==
    Returns(Call("count", Undefined, EmptyObject, NoFilter),
            count(create(Self)))

HandleAll ==
    Returns(Call("all", Undefined, EmptyObject, NoFilter), all(create(Self)))

HandleInsert ==
    \E id \in HandleIds, data \in HandleData :
        LET out == insert(create(Self), id, data)
        IN /\ Len(out.self._cache_ids.ids) <= MaxRows
           /\ Returns(Call("insert", id, data, NoFilter), out)

HandleUpdate ==
    \E id \in HandleIds, data \in HandleData :
        LET out == update(create(Self), id, data)
        IN /\ Len(out.self._cache_ids.ids) <= MaxRows
           /\ Returns(Call("update", id, data, NoFilter), out)

HandleDelete ==
    \E id \in HandleIds :
        Returns(Call("delete", id, EmptyObject, NoFilter),
                delete(create(Self), id))

HandleDrop ==
    Returns(Call("drop", Undefined, EmptyObject, NoFilter),
            Outcome(drop(create(Self)), "none", RetNone))

NextHandles ==
    \/ SwitchHandle
    \/ HandleCount
    \/ HandleAll
    \/ HandleInsert
    \/ HandleUpdate
    \/ HandleDelete
    \/ HandleDrop

SpecHandles == InitHandles /\ [][NextHandles]_vars

(***************************************************************************)
(* A fourth state machine: the table in a Storage that also holds a key of *)
(* its owner and the keys of a table of another name                       *)
(***************************************************************************)
\* The name of the other table.
otherTableName == "records_detail"

\* The ids callers use in the shared Storage.
SharedIds == {Num(1), Str("list")}

\* The text the owner keeps under its own key.
CustomItem == JSONstringifyObject([value |-> Str("yo")])

\* The Storage after the owner has set its key, the other table has been
\* constructed and has had one row inserted, and this table has been
\* constructed.
SharedStorage ==
    LET custom == setItem(EmptyObject, "super_custom", CustomItem)
        otherRow == setItem(custom, DetailNameOf(otherTableName, Num(1)),
                            _serializeData([message |-> Str("Hello"),
                                            loginCount |-> Num(0)]))
        other == setItem(otherRow, TableListNameOf(otherTableName),
                         JSONstringifyArray(<<Num(1)>>))
    IN create(Table(other, NullCache)).storage

InitShared ==
    /\ storage = SharedStorage
    /\ _cache_ids = ArrayCache(<<>>)
    /\ call = Call("construct", Undefined, EmptyObject, NoFilter)
    /\ err = "none"
    /\ ret = RetNone
    /\ callerData = EmptyObject
    /\ errors = <<>>
    /\ writes = <<>>
    /\ fields = _fields
    /\ otherCacheIds = NullCache

SharedConstruct ==
    Returns(Call("construct", Undefined, EmptyObject, NoFilter),
            Outcome(create(Table(storage, NullCache)), "none", RetNone))

SharedCreate ==
    Returns(Call("create", Undefined, EmptyObject, NoFilter),
            Outcome(create(Self), "none", RetNone))

SharedDrop ==
    Returns(Call("drop", Undefined, EmptyObject, NoFilter),
            Outcome(drop(Self), "none", RetNone))

SharedCount ==
    Returns(Call("count", Undefined, EmptyObject, NoFilter), count(Self))

SharedAll ==
    Returns(Call("all", Undefined, EmptyObject, NoFilter), all(Self))

SharedFilter ==
    \E filterBy \in FilterInputs :
        Returns(Call("filter", Undefined, EmptyObject, filterBy),
                filter(Self, filterBy))

SharedGet ==
    \E id \in SharedIds :
        Returns(Call("get", id, EmptyObject, NoFilter), get(Self, id))

SharedExists ==
    \E id \in SharedIds :
        Returns(Call("exists", id, EmptyObject, NoFilter),
                Outcome(Self, "none", RetBool(exists(Self, id))))

SharedInsert ==
    \E id \in SharedIds, data \in HandleData :
        LET out == insert(Self, id, data)
        IN /\ Len(out.self._cache_ids.ids) <= MaxRows
           /\ Returns(Call("insert", id, data, NoFilter), out)

SharedUpdate ==
    \E id \in SharedIds, data \in HandleData :
        LET out == update(Self, id, data)
        IN /\ Len(out.self._cache_ids.ids) <= MaxRows
           /\ Returns(Call("update", id, data, NoFilter), out)

SharedDelete ==
    \E id \in SharedIds :
        Returns(Call("delete", id, EmptyObject, NoFilter), delete(Self, id))

NextShared ==
    \/ SharedConstruct
    \/ SharedCreate
    \/ SharedDrop
    \/ SharedCount
    \/ SharedAll
    \/ SharedFilter
    \/ SharedGet
    \/ SharedExists
    \/ SharedInsert
    \/ SharedUpdate
    \/ SharedDelete

SpecShared == InitShared /\ [][NextShared]_vars

(***************************************************************************)
(* What the claims observe                                                 *)
(***************************************************************************)
\* The id sequence persisted under <name>_list (empty when there is none).
PersistedIds(st) == getItem(st, _tableListName).arr

\* The detail keys of the table that the Storage holds.
DetailKeys(st) == {_detailName(id) : id \in Ids} \cap DOMAIN st

\* The detail entries alone.
Details(st) == [k \in DetailKeys(st) |-> st[k]]

\* What count() would return on the object.
CountOf(self) == count(self).ret.num

\* The data m with the declared defaults for the fields it lacks, and the
\* id field set to i.
WithDefaultsAndId(m, i) ==
    LET defaulted == {_fields[n].name : n \in
                         {x \in 1..Len(_fields) : "default" \in DOMAIN _fields[x]}}
        DefaultOf(name) ==
            _fields[CHOOSE n \in 1..Len(_fields) : _fields[n].name = name].default
    IN [k \in DOMAIN m \cup defaulted \cup {idField} |->
           IF k = idField THEN i
           ELSE IF k \in DOMAIN m THEN m[k] ELSE DefaultOf(k)]

\* C1: at the end of every public operation the persisted index names
\* exactly the ids that have a detail entry in the Storage.
C1_IndexMatchesDetails ==
    {_detailName(PersistedIds(storage)[i]) :
        i \in 1..Len(PersistedIds(storage))} = DetailKeys(storage)

\* C2: an insert, or an update of a missing id, that succeeds on an object
\* whose cache is unloaded over a non-empty persisted index appends the id:
\* the persisted ids keep their places and count() grows by one.
C2_UnloadedPushKeepsIndex ==
    [][(/\ call'.op \in {"insert", "update"}
        /\ err' = "none"
        /\ _cache_ids.isNull
        /\ Len(PersistedIds(storage)) > 0
        /\ ~exists(Self, call'.id))
       => /\ PersistedIds(storage') =
                Append(PersistedIds(storage), call'.id)
          /\ CountOf(Table(storage', _cache_ids')) = CountOf(Self) + 1]_vars

\* C3: delete(id) never raises an error, whatever the id and the state.
C3_DeleteNeverThrows == call.op = "delete" => err = "none"

\* C4: insert(i, m) of valid data under an id that does not exist succeeds;
\* afterwards exists(i) holds, count() is one larger, and get(i) is m with
\* the declared defaults filled in and the id field equal to i.
C4_InsertGetRoundTrip ==
    [][(/\ call'.op = "insert"
        /\ ~exists(Self, call'.id)
        /\ Len(_validate(call'.data).errors) = 0)
       => LET after == Table(storage', _cache_ids')
          IN /\ err' = "none"
             /\ exists(after, call'.id)
             /\ CountOf(after) = CountOf(Self) + 1
             /\ get(after, call'.id).ret.obj =
                   WithDefaultsAndId(call'.data, call'.id)]_vars

\* C5: insert on an id whose row exists fails with AlreadyExists and leaves
\* the Storage (every detail entry, the persisted index) and the id cache
\* as they were.
C5_InsertExistingFails ==
    [][(call'.op = "insert" /\ exists(Self, call'.id))
       => /\ err' = "AlreadyExists"
          /\ storage' = storage
          /\ _cache_ids' = _cache_ids]_vars

C5_Witness ==
    /\ call.op = "insert"
    /\ err = "AlreadyExists"
    /\ Len(PersistedIds(storage)) > 0

\* C6: when validation of the data (for update: of the merged data) finds
\* errors, insert and update fail with ValidationError, and a call that
\* fails so writes and removes no Storage key: the detail entries, the
\* persisted index and count() are unchanged.
C6_ValidationFailureWritesNothing ==
    [][call'.op \in {"insert", "update"}
       => LET invalid ==
                IF call'.op = "insert"
                THEN /\ ~exists(Self, call'.id)
                     /\ Len(_validate(call'.data).errors) > 0
                ELSE Len(_validate(
                         MergedData(Self, call'.id, call'.data)).errors) > 0
          IN /\ invalid => err' = "ValidationError"
             /\ err' = "ValidationError"
                => /\ storage' = storage
                   /\ CountOf(Table(storage', _cache_ids')) = CountOf(Self)
                   /\ ~exists(Self, call'.id)
                      => ~exists(Table(storage', _cache_ids'), call'.id)]_vars

C6_Witness ==
    /\ call.op = "update"
    /\ err = "ValidationError"
    /\ ~exists(Self, call.id)
    /\ Len(PersistedIds(storage)) > 0

\* C7: an update that succeeds creates the row of a missing id from the
\* partial data and the defaults, appends the id to the index and raises
\* count() by one; on an existing id it leaves count() and the index alone
\* and changes exactly the fields the partial data names.
C7_UpdateCreatesOrMerges ==
    [][(call'.op = "update" /\ err' = "none")
       => LET after == Table(storage', _cache_ids')
              id == call'.id
              old == get(Self, id).ret.obj
              new == get(after, id).ret.obj
              named == DOMAIN call'.data \ {idField}
          IN IF ~exists(Self, id)
             THEN /\ new = WithDefaultsAndId(
                              [k \in named |-> call'.data[k]], id)
                  /\ PersistedIds(storage') =
                        Append(PersistedIds(storage), id)
                  /\ CountOf(after) = CountOf(Self) + 1
             ELSE /\ CountOf(after) = CountOf(Self)
                  /\ PersistedIds(storage') = PersistedIds(storage)
                  /\ new = [k \in DOMAIN old \cup named |->
                               IF k \in named THEN call'.data[k]
                               ELSE old[k]]]_vars

\* C8: delete of an existing id lowers count() by one, makes exists(id)
\* false and keeps the other ids in order; delete of a missing id leaves
\* count(), the index and every detail entry unchanged.
C8_DeleteRemovesExactlyOne ==
    [][call'.op = "delete"
       => LET after == Table(storage', _cache_ids')
              id == call'.id
          IN IF exists(Self, id)
             THEN /\ CountOf(after) = CountOf(Self) - 1
                  /\ ~exists(after, id)
                  /\ PersistedIds(storage') =
                        SelectSeq(PersistedIds(storage),
                                  LAMBDA other : other # id)
             ELSE /\ CountOf(after) = CountOf(Self)
                  /\ PersistedIds(storage') = PersistedIds(storage)
                  /\ Details(storage') = Details(storage)]_vars

\* C9: after drop() the Storage holds neither the index nor a detail entry
\* of the table, the cache is unloaded, count() is 0, and create() and
\* insert() then succeed as on a fresh table.
C9_DropRemovesTable ==
    call.op = "drop"
    => /\ _tableListName \notin DOMAIN storage
       /\ DetailKeys(storage) = {}
       /\ _cache_ids.isNull
       /\ CountOf(Self) = 0
       /\ PersistedIds(create(Self).storage) = <<>>
       /\ \A id \in Ids :
             LET out == insert(create(Self), id, [message |-> Str("Hello")])
             IN out.err = "none" /\ PersistedIds(out.self.storage) = <<id>>

\* C10: create() changes nothing when the Storage holds the index key and
\* persists an empty index when it does not; a second create() changes
\* nothing more.
C10_CreateIdempotent ==
    [][/\ call'.op = "create"
          => IF _tableListName \in DOMAIN storage
             THEN storage' = storage /\ _cache_ids' = _cache_ids
             ELSE /\ storage' = setItem(storage, _tableListName,
                                        JSONstringifyArray(<<>>))
                  /\ PersistedIds(storage') = <<>>
       /\ create(create(Self)) = create(Self)
       /\ call'.op = "create"
          => create(Table(storage', _cache_ids')) =
                Table(storage', _cache_ids')]_vars

C10_Witness ==
    /\ call.op = "create"
    /\ _cache_ids.isNull
    /\ Len(PersistedIds(storage)) > 1
    /\ DetailKeys(storage) # {}

(***************************************************************************)
(* Reading: filter, all, get, exists                                       *)
(***************************************************************************)
\* Every comparison named in the mapping is one of lookupTypes.
ValidLookups(map) ==
    \A fieldName \in DOMAIN map : DOMAIN map[fieldName] \subseteq lookupTypes

\* The ids of the persisted index that have a detail entry, in index order.
StoredIds(st) ==
    SelectSeq(PersistedIds(st), LAMBDA id : _detailName(id) \in DOMAIN st)

\* The row the Storage holds under id, with the id attached.
RowOf(st, id) == SetProperty(st[_detailName(id)].obj, idField, id)

\* The rows of the persisted index that have a detail entry, in index order.
IndexRows(st) == [n \in 1..Len(StoredIds(st)) |-> RowOf(st, StoredIds(st)[n])]

\* No two rows of the sequence come from the same detail entry.
EachRowOnce(rows) ==
    \A i, j \in 1..Len(rows) :
        i # j => _detailName(rows[i][idField]) # _detailName(rows[j][idField])

\* Every comparison of the mapping on a field the row has is true of the row.
RowMatches(map, row) ==
    \A fieldName \in DOMAIN map \cap DOMAIN row :
        \A comparison \in DOMAIN map[fieldName] :
            Compare(comparison, row[fieldName], map[fieldName][comparison])

\* C11: filter(mapping) with recognized comparisons only returns exactly the
\* rows of the table for which every comparison of every named field is
\* true, each row once, in index order.
C11_DeclarativeFilterResult ==
    [][(/\ call'.op = "filter"
        /\ call'.filterBy.kind = "object"
        /\ ValidLookups(call'.filterBy.map))
       => /\ err' = "none"
          /\ ret'.rows = SelectSeq(IndexRows(storage'),
                 LAMBDA row : RowMatches(call'.filterBy.map, row))
          /\ EachRowOnce(ret'.rows)]_vars

\* C12: filter(mapping) with a comparison outside lookupTypes throws the
\* invalid-lookup error in every state of the table, an empty table and a
\* table whose rows all lack the filtered field included, and changes no
\* entry of the Storage.
C12_InvalidLookupAlwaysFails ==
    [][(/\ call'.op = "filter"
        /\ call'.filterBy.kind = "object"
        /\ ~ValidLookups(call'.filterBy.map))
       => /\ err' = "InvalidLookup"
          /\ Details(storage') = Details(storage)]_vars

\* The criteria are true of the row: no criteria, a function or a mapping.
CriteriaMatch(filterBy, row) ==
    CASE filterBy.kind = "undefined" -> TRUE
      [] filterBy.kind = "function" -> CallFilterBy(filterBy.fn, row)
      [] OTHER -> RowMatches(filterBy.map, row)

\* The persisted index names an id that has no detail entry.
IndexHasMissingDetail(st) == Len(StoredIds(st)) < Len(PersistedIds(st))

\* C13: when the index names an id whose detail entry is absent, all() and
\* filter(criteria) do not throw: they skip that id and return the rows of
\* the remaining ids that meet the criteria, in index order.
C13_ScanSkipsMissingDetail ==
    [][(/\ call'.op \in {"all", "filter"}
        /\ ValidLookups(call'.filterBy.map)
        /\ IndexHasMissingDetail(storage))
       => /\ err' = "none"
          /\ ret'.rows = SelectSeq(IndexRows(storage),
                 LAMBDA row : CriteriaMatch(call'.filterBy, row))]_vars

\* C14: filter(fn) returns exactly the rows, id attached, for which fn is
\* true, in index order; all() returns every row of the table exactly once
\* in index order, so that the length of all() equals count().
C14_PredicateFilterAndAll ==
    [][/\ (call'.op = "filter" /\ call'.filterBy.kind = "function")
          => /\ err' = "none"
             /\ ret'.rows = SelectSeq(IndexRows(storage'),
                    LAMBDA row : CallFilterBy(call'.filterBy.fn, row))
       /\ call'.op = "all"
          => /\ err' = "none"
             /\ ret'.rows = IndexRows(storage')
             /\ EachRowOnce(ret'.rows)
             /\ {_detailName(ret'.rows[n][idField]) :
                    n \in 1..Len(ret'.rows)} = DetailKeys(storage')
             /\ Len(ret'.rows) = CountOf(Table(storage', _cache_ids'))]_vars

\* C15: get(id) throws the not-found error exactly when the Storage holds
\* no detail entry for the id and returns the decoded row otherwise;
\* exists(id) never throws and is true exactly when get(id) would return;
\* neither changes the Storage or the cache.
C15_GetExistsByDetailEntry ==
    [][/\ call'.op = "get"
          => /\ IF _detailName(call'.id) \in DOMAIN storage
                THEN err' = "none" /\ ret'.obj = RowOf(storage, call'.id)
                ELSE err' = "NotFound"
             /\ storage' = storage
             /\ _cache_ids' = _cache_ids
       /\ call'.op = "exists"
          => /\ err' = "none"
             /\ ret'.bool = (_detailName(call'.id) \in DOMAIN storage)
             /\ ret'.bool = (get(Self, call'.id).err = "none")
             /\ storage' = storage
             /\ _cache_ids' = _cache_ids]_vars

\* get(id) has thrown for an id that the persisted index names.
C15_Witness ==
    /\ call.op = "get"
    /\ err = "NotFound"
    /\ \E n \in 1..Len(PersistedIds(storage)) :
          PersistedIds(storage)[n] = call.id

(***************************************************************************)
(* Validation                                                              *)
(***************************************************************************)
\* A number that rounding leaves unchanged.
IntegralNumber(value) ==
    value.type = "number" /\ value.str \notin {".5", "NaN"}

\* The values a field of the type accepts.
Accepts(fieldType, value) ==
    CASE fieldType = "str" -> value.type = "string"
      [] fieldType \in {"int", "timestamp"} -> IntegralNumber(value)
      [] fieldType = "float" -> value.type = "number"
      [] fieldType = "bool" -> value.type = "boolean"
      [] fieldType = "obj" -> TRUE

\* The type a field declares ("str" when it declares none).
DeclaredType(fieldAttrs) ==
    IF "type" \in DOMAIN fieldAttrs THEN fieldAttrs.type ELSE "str"

\* The error the data earns for one declared field, "none" when it earns
\* none.
FieldError(fieldAttrs, data) ==
    IF fieldAttrs.name \notin DOMAIN data
    THEN IF /\ "default" \notin DOMAIN fieldAttrs
            /\ ~("required" \in DOMAIN fieldAttrs /\ fieldAttrs.required = FALSE)
         THEN "Missing" ELSE "none"
    ELSE IF DeclaredType(fieldAttrs) \notin fieldTypeNames
         THEN "InvalidFieldType"
         ELSE IF ~Accepts(DeclaredType(fieldAttrs), data[fieldAttrs.name])
              THEN "InvalidDataType" ELSE "none"

\* One error for each declared field that earns one, in declaration order.
ExpectedErrors(fieldList, data) ==
    SelectSeq([n \in 1..Len(fieldList) |->
                  [kind |-> FieldError(fieldList[n], data),
                   field |-> fieldList[n].name]],
              LAMBDA e : e.kind # "none")

\* The data with the default of every declared field it lacks.
ExpectedData(fieldList, data) ==
    LET defaulted == {n \in 1..Len(fieldList) :
                         /\ "default" \in DOMAIN fieldList[n]
                         /\ fieldList[n].name \notin DOMAIN data}
    IN [k \in DOMAIN data \cup {fieldList[n].name : n \in defaulted} |->
           IF k \in DOMAIN data THEN data[k]
           ELSE fieldList[CHOOSE n \in defaulted : fieldList[n].name = k].default]

\* C16: _validate(data) goes through every declared field and lists exactly
\* one error for each field that is absent without a default and without
\* required false, present under an unknown type name, or present with a
\* value its type's validator rejects, in declaration order and nothing
\* else; an absent field with a default is set to the default on the data.
C16_ValidateListsEveryError ==
    call.op = "validate"
    => /\ errors = ExpectedErrors(fields, call.data)
       /\ callerData = ExpectedData(fields, call.data)

\* _validate has listed an error of each kind, for three fields, and has
\* set a default on the data.
C16_Witness ==
    /\ call.op = "validate"
    /\ {errors[n].kind : n \in 1..Len(errors)} =
          {"Missing", "InvalidFieldType", "InvalidDataType"}
    /\ DOMAIN callerData # DOMAIN call.data

C18_IdStrippedAndReattached ==
    /\ \A key \in DetailKeys(storage) : idField \notin DOMAIN storage[key].obj
    /\ (call.op = "get" /\ err = "none")
       => /\ ret.obj[idField] = call.id
          /\ _detailName(call.id) \in DOMAIN storage
          /\ ret.obj = RowOf(storage, call.id)
    /\ (call.op \in {"all", "filter"} /\ err = "none")
       => \A n \in 1..Len(ret.rows) :
             /\ _detailName(ret.rows[n][idField]) \in DOMAIN storage
             /\ ret.rows[n] = RowOf(storage, ret.rows[n][idField])

\* A row has been inserted under one id with data that names another id,
\* and reads back under the id it was inserted with.
C18_Witness ==
    /\ call.op = "insert"
    /\ err = "none"
    /\ idField \in DOMAIN call.data
    /\ call.data[idField] # call.id
    /\ get(Self, call.id).ret.obj[idField] = call.id

\* C19: insert validates a copy of the data: the caller's data object is
\* the same after insert has returned or thrown as it was before, also
\* when a declared default applies.
C19_InsertLeavesCallerData ==
    call.op = "insert" => callerData = call.data

(***************************************************************************)
(* The order of the writes of one call                                     *)
(***************************************************************************)
\* The Storage after one write.
ApplyWrite(st, w) ==
    IF w.op = "setItem" THEN setItem(st, w.key, w.value)
    ELSE removeItem(st, w.key)

\* The Storage after the first n writes of the sequence.
RECURSIVE StorageAfter(_, _, _)
StorageAfter(st, ws, n) ==
    IF n = 0 THEN st ELSE ApplyWrite(StorageAfter(st, ws, n - 1), ws[n])

\* The ids the persisted index names that have no detail entry.
IdsWithoutDetail(st) ==
    {PersistedIds(st)[n] : n \in 1..Len(PersistedIds(st))}
        \ {id \in Ids : _detailName(id) \in DOMAIN st}

\* C20: an insert, and an update of a missing id, write the detail entry
\* before they rewrite the index, so that in every state between the single
\* writes of the call the persisted index names no id without a detail
\* entry.
C20_DetailWrittenBeforeIndex ==
    [][(/\ call'.op \in {"insert", "update"}
        /\ err' = "none"
        /\ ~exists(Self, call'.id))
       => /\ StorageAfter(storage, writes', Len(writes')) = storage'
          /\ \E d, l \in 1..Len(writes') :
                /\ d < l
                /\ writes'[d] = [op |-> "setItem",
                                 key |-> _detailName(call'.id),
                                 value |-> storage'[_detailName(call'.id)]]
                /\ writes'[l].key = _tableListName
                /\ \A n \in 1..Len(writes') :
                      writes'[n].key = _tableListName => d < n
          /\ \A n \in 1..(Len(writes') - 1) :
                IdsWithoutDetail(StorageAfter(storage, writes', n)) = {}]_vars

(***************************************************************************)
(* The index                                                               *)
(***************************************************************************)
\* C21: at the end of every public operation of the one table object, a
\* loaded cache of ids comes with an index entry in the Storage that
\* decodes to the same ids in the same order: every id appended or removed
\* is persisted by the operation that appends or removes it.
C21_WriteThroughCache ==
    ~_cache_ids.isNull
    => /\ _tableListName \in DOMAIN storage
       /\ storage[_tableListName].isArray
       /\ storage[_tableListName].arr = _cache_ids.ids

\* A delete has taken an id out of a loaded cache that names another id.
C21_Witness ==
    /\ call.op = "delete"
    /\ err = "none"
    /\ Len(writes) = 2
    /\ Len(_cache_ids.ids) > 0
    /\ \A n \in 1..Len(_cache_ids.ids) : _cache_ids.ids[n] # call.id

\* No id occurs twice in the sequence.
NoDuplicates(ids) ==
    \A i, j \in 1..Len(ids) : ids[i] = ids[j] => i = j

\* C22: the persisted index never holds an id twice and keeps the ids in
\* the order of their creation: an insert or an update of a missing id
\* appends the id, an update of an existing id leaves the index as it is,
\* and a delete takes out the id and keeps the order of the others.
C22_IndexInsertionOrder ==
    [][/\ NoDuplicates(PersistedIds(storage'))
       /\ (call'.op \in {"insert", "update"} /\ err' = "none")
          => PersistedIds(storage') =
                IF exists(Self, call'.id) THEN PersistedIds(storage)
                ELSE Append(PersistedIds(storage), call'.id)
       /\ (call'.op = "delete" /\ err' = "none")
          => PersistedIds(storage') =
                SelectSeq(PersistedIds(storage),
                          LAMBDA id : id # call'.id)]_vars

(***************************************************************************)
(* Filtering on fields a row lacks                                         *)
(***************************************************************************)
\* The fields named in the mapping that the row has.
FieldsOfRow(map, row) == DOMAIN map \cap DOMAIN row

C24_HandlesSeeEachOther ==
    /\ (call.op = "count" /\ err = "none")
       => ret.num = Cardinality(DetailKeys(storage))
    /\ (call.op = "all" /\ err = "none")
       => {_detailName(ret.rows[n][idField]) : n \in 1..Len(ret.rows)}
             = DetailKeys(storage)
    /\ call.op \in {"count", "all"} => err = "none"
    /\ {_detailName(PersistedIds(storage)[n]) :
           n \in 1..Len(PersistedIds(storage))} = DetailKeys(storage)

(***************************************************************************)
(* The keys of the Storage                                                 *)
(***************************************************************************)
\* The strings that ids spell in a key.
IdStrings == {"1", "2", "list"}

\* The keys a table of the given name derives: its index key and its detail
\* keys.
KeyFamily(name) ==
    {name \o "_list"} \cup {name \o "_detail_" \o s : s \in IdStrings}

\* The key is in both Storages, with the same text, or in neither.
SameEntry(st, after, key) ==
    /\ key \in DOMAIN st <=> key \in DOMAIN after
    /\ key \in DOMAIN st => after[key] = st[key]

\* C25: no operation of the table writes or removes a key of the Storage
\* that is neither the table's index key nor one of its detail keys; drop()
\* in particular leaves every other key with its text.
C25_KeyFamilyFrame ==
    [][/\ \A key \in (DOMAIN storage \cup DOMAIN storage') \ KeyFamily(tableName) :
             SameEntry(storage, storage', key)
       /\ \A n \in 1..Len(writes') : writes'[n].key \in KeyFamily(tableName)]_vars

\* drop() has removed a table with a row and the index, and the owner's key
\* is still in the Storage.
C25_Witness ==
    /\ call.op = "drop"
    /\ Len(writes) > 1
    /\ "super_custom" \in DOMAIN storage
    /\ _tableListName \notin DOMAIN storage

(***************************************************************************)
(* Rows under different ids                                                *)
(***************************************************************************)
\* C26: for two distinct ids, a number and the string of the same digits
\* included, an insert, update or delete under the one never changes what
\* get and exists answer for the other, and a delete takes the one id, and
\* no other, out of the index.
C26_RowIndependence ==
    [][call'.op \in {"insert", "update", "delete"}
       => /\ \A other \in Ids \ {call'.id} :
                /\ get(Table(storage', _cache_ids'), other).err
                      = get(Self, other).err
                /\ get(Table(storage', _cache_ids'), other).ret
                      = get(Self, other).ret
                /\ exists(Table(storage', _cache_ids'), other)
                      = exists(Self, other)
          /\ call'.op = "delete"
             => PersistedIds(storage') =
                   SelectSeq(PersistedIds(storage),
                             LAMBDA id : id # call'.id)]_vars

\* C27: the key families of two tables of different names never coincide:
\* no operation of the one table writes or removes the index key or a
\* detail key of the other.
C27_TableIsolation ==
    [][/\ KeyFamily(tableName) \cap KeyFamily(otherTableName) = {}
       /\ \A key \in KeyFamily(otherTableName) :
             SameEntry(storage, storage', key)]_vars

(***************************************************************************)
(* What reading changes                                                    *)
(***************************************************************************)
\* C28: count(), all() and filter() never create, change or remove a detail
\* entry; they leave a persisted index as it is, and when the Storage holds
\* none they create an empty one if the cache is unloaded and nothing
\* otherwise.
C28_ReadsLeaveRows ==
    [][call'.op \in {"count", "all", "filter"}
       => /\ Details(storage') = Details(storage)
          /\ IF _tableListName \in DOMAIN storage \/ ~_cache_ids.isNull
             THEN storage' = storage
             ELSE storage' = setItem(storage, _tableListName,
                                     JSONstringifyArray(<<>>))]_vars

\* all() has created the index that was absent from the Storage.
C28_Witness ==
    /\ call.op = "all"
    /\ err = "none"
    /\ Len(writes) = 1
    /\ writes[1].key = _tableListName
    /\ PersistedIds(storage) = <<>>

(***************************************************************************)
(* The rows the Storage holds                                              *)
(***************************************************************************)
\* C29: the declared defaults being valid for their types, every detail
\* entry that insert and update have persisted passes validation again:
\* decoded and validated against the field list it yields no error.
C29_PersistedRowsConform ==
    \A key \in DetailKeys(storage) : _validate(storage[key].obj).errors = <<>>

====
